---- MODULE Spec2Model ----
(***************************************************************************)
(* Model of the tuya client: device.Manager (the session manager with its  *)
(* read loop, request and Close) on top of net.Client (Write with its      *)
(* sequence counter and write lock, Read) and net.Response.                *)
(*                                                                         *)
(* Goroutines of the model: the read loop started by Manager.start, the    *)
(* callers of Manager.request (GetState / SetState) and the callers of     *)
(* Manager.Close.  Every step that takes or waits for a lock, blocks on a  *)
(* channel or touches the connection is an action of its own, so that the  *)
(* interleavings the Go scheduler allows are the behaviours of Spec.       *)
(***************************************************************************)
EXTENDS Integers, Sequences, FiniteSets, TLC

\* ------------------------------------------------------------- bounds
\* Number of goroutines calling Manager.request (one request each).
NumCallers == 2
\* Number of goroutines calling Manager.Close explicitly (one call each).
MaxCloses == 1

Callers == 1..NumCallers
Closers == 1..MaxCloses
\* The read loop goroutine, as a caller of Close (its deferred m.Close()).
Reader == 0
CloseProcs == {Reader} \cup Closers

\* ------------------------------------------------------------- uint32
\* Client.seq and Frame.Seq are uint32.  The model checker's integers are
\* 32-bit signed, so a uint32 is kept as its two 16-bit halves.
Half == 65536
U32(h, l) == [hi |-> h, lo |-> l]
Zero == U32(0, 0)
One == U32(0, 1)
MaxU32 == U32(Half - 1, Half - 1)
\* c.seq += 1 on a uint32: wraps from 2^32-1 to 0.
Inc(u) ==
    IF u.lo = Half - 1
      THEN U32((u.hi + 1) % Half, 0)
      ELSE U32(u.hi, u.lo + 1)
U32Less(a, b) == a.hi < b.hi \/ (a.hi = b.hi /\ a.lo < b.lo)

\* ------------------------------------------------------------- errors
\* A Go error value; NilErr is the nil error.
\* cause is the error's text, outermost prefix first.
Error(t, c) == [type |-> t, cause |-> <<c>>, code |-> Zero, msg |-> << >>]
NilErr == [type |-> "nil", cause |-> << >>, code |-> Zero, msg |-> << >>]
ErrClosed == Error("ErrClosed", "closed")
ErrNoKey == Error("ErrNoKey", "no Key in ClientConfig")
\* fmt.Errorf("Read: %v", err) recorded by the read loop.
ReadError(err) == [type |-> "Read", cause |-> <<"Read">> \o err.cause, code |-> Zero, msg |-> << >>]
\* ResponseError{Code, Message}
ResponseError(c, m) == [type |-> "ResponseError", cause |-> << >>, code |-> c, msg |-> m]

\* The two places Client.Read fails: DecodeFrame (bad prefix, suffix or
\* length, crc mismatch, short read or other I/O error) and Decrypt.
ReadFailures == {"DecodeFrame", "Decrypt"}

\* ------------------------------------------------------------- responses
\* Payloads the device sends (after decryption): 4-byte big-endian status
\* code, then the body.  123 is '{', 125 is '}', 98 is 'b'.
Payloads == { <<0, 0, 0, 0, 123, 125>>, <<0, 0, 0, 1, 98>> }

\* *Response as returned by Client.Read; isNil marks the nil pointer.
NilResponse == [isNil |-> TRUE, Seq |-> Zero, Payload |-> << >>]
Response(s, p) == [isNil |-> FALSE, Seq |-> s, Payload |-> p]

\* binary.BigEndian.Uint32(r.Payload): the first four bytes as a uint32.
BigEndianUint32(p) == U32(p[1] * 256 + p[2], p[3] * 256 + p[4])

\* Response.Err
RespErr(r) ==
    IF Len(r.Payload) < 4
      THEN Error("fmt", "payload too short")
      ELSE IF BigEndianUint32(r.Payload) # Zero
        THEN ResponseError(BigEndianUint32(r.Payload), SubSeq(r.Payload, 5, Len(r.Payload)))
        ELSE NilErr

\* json.Unmarshal succeeds on the body: the JSON codec is external, a body is
\* taken as valid JSON when it is an object "{...}".
ValidJSON(d) == Len(d) >= 2 /\ d[1] = 123 /\ d[Len(d)] = 125

\* (mutation of Bytes: the status code left in front of the body)
BytesWithCode(r) ==
    IF RespErr(r) # NilErr
      THEN [data |-> << >>, err |-> RespErr(r)]
      ELSE [data |-> r.Payload, err |-> NilErr]

\* Response.Bytes: the payload without its 4 leading status code bytes, or
\* (nil, err) when Err reports an error.
Bytes(r) ==
    IF RespErr(r) # NilErr
      THEN [data |-> << >>, err |-> RespErr(r)]
      ELSE [data |-> SubSeq(r.Payload, 5, Len(r.Payload)), err |-> NilErr]

\* Response.DecodeJSON: json.Unmarshal of what Bytes returns.
DecodeJSON(r) ==
    IF Bytes(r).err # NilErr
      THEN Bytes(r).err
      ELSE IF ValidJSON(Bytes(r).data)
        THEN NilErr
        ELSE Error("fmt", "Unmarshal")

\* ------------------------------------------------------------- maps
Put(m, k, v) == [x \in DOMAIN m \cup {k} |-> IF x = k THEN v ELSE m[x]]
\* (mutation of Del: the entry left in the table)
DelNothing(m, k) == m
Del(m, k) == [x \in DOMAIN m \ {k} |-> m[x]]
EmptyMap == [x \in {} |-> 0]

VARIABLES
    \* Manager
    closed,         \* m.closed
    readErr,        \* m.readErr
    responseChans,  \* m.responseChans: seq -> channel (named by the caller that made it)
    mu,             \* m.Mutex: the set of its holders ({} when free)
    \* Client
    seq,            \* c.seq
    wmu,            \* c.Mutex: the set of its holders
    hasCipher,      \* c.cipher # nil
    connOpen,       \* the connection has not been closed
    closeCalls,     \* number of calls of c.conn.Close so far
    stream,         \* what has been written to the connection, in order
    \* read loop goroutine
    rpc, res, rerr, panicking,
    \* request goroutines
    pc, kind, wseq, mySeq, chan, result,
    \* Close calls (of Closers and of the read loop's deferred m.Close())
    cpc,
    \* the process has died of an unrecovered panic
    crashed,
    \* a call of one of the package's functions on its own: the function
    \* with its arguments, and what it returned
    arg, ret

vars == <<closed, readErr, responseChans, mu, seq, wmu, hasCipher, connOpen,
          closeCalls, stream, rpc, res, rerr, panicking,
          pc, kind, wseq, mySeq, chan, result, cpc, crashed, arg, ret>>

mgrVars == <<closed, readErr, responseChans, mu>>
cliVars == <<seq, wmu, hasCipher, connOpen, closeCalls, stream>>
rdVars == <<rpc, res, rerr, panicking>>
reqVars == <<pc, kind, wseq, mySeq, chan, result>>
fnVars == <<arg, ret>>

\* What a request returned: an error (NilErr on success), the frame it was
\* resolved with, or a panic out of Manager.request.
NoResult == [state |-> "none", err |-> NilErr, frame |-> NilResponse]
Returned(e, f) == [state |-> "returned", err |-> e, frame |-> f]
Panicked(f) == [state |-> "panic", err |-> NilErr, frame |-> f]

\* NewManager on a freshly dialled client: Dial leaves seq at 0 and sets the
\* cipher when a key is configured; start() has launched the read loop.
InitSession ==
    /\ closed = FALSE
    /\ readErr = NilErr
    /\ responseChans = EmptyMap
    /\ mu = {}
    /\ wmu = {}
    /\ hasCipher \in BOOLEAN
    /\ connOpen = TRUE
    /\ closeCalls = 0
    /\ stream = << >>
    /\ rpc = "read"
    /\ res = NilResponse
    /\ rerr = NilErr
    /\ panicking = FALSE
    /\ pc = [c \in Callers |-> "idle"]
    /\ kind = [c \in Callers |-> "get"]
    /\ wseq = [c \in Callers |-> Zero]
    /\ mySeq = [c \in Callers |-> Zero]
    /\ chan = [c \in Callers |-> "none"]
    /\ result = [c \in Callers |-> NoResult]
    /\ cpc = [p \in CloseProcs |-> "idle"]
    /\ crashed = FALSE

\* No function of the package is being called on its own.
NoCall == [fn |-> "none"]
InitNoCall ==
    /\ arg = NoCall
    /\ ret = NoCall

Init ==
    /\ seq = Zero
    /\ InitSession
    /\ InitNoCall

\* A client that is freshly dialled (seq = 0), or one that has been in use:
\* Write is exported and the counter is never reset, so after 2^32 - 2 writes
\* the counter is about to wrap.
InitSeqs == {Zero, U32(Half - 1, Half - 2)}

InitWrite ==
    /\ seq \in InitSeqs
    /\ InitSession
    /\ InitNoCall

Running == ~crashed

\* ------------------------------------------------------------- net.Client
\* Seq numbers of the whole frames on the stream (the requests the device has seen).
Range(f) == {f[i] : i \in DOMAIN f}
WrittenSeqs == {fr.Seq : fr \in {x \in Range(stream) : x.part = "tail"}}
\* Sequence numbers the device may put in a frame it sends: an answer to a
\* request it has seen (answers may be repeated), or an unsolicited frame.
RespSeqs == WrittenSeqs \cup {Zero}

\* SetState sends cmd 0x07 encrypted and passes no decode target;
\* GetState sends cmd 0x0a in the clear and decodes into a struct.
Kinds == {"get", "set"}
Cmd(k) == IF k = "set" THEN 7 ELSE 10
\* (mutation of Encrypt: no request asks for encryption, so the test of line
\* 73 never fires)
EncryptNever(k) == FALSE
Encrypt(k) == k = "set"

\* fmt.Errorf(prefix + ": %v", err): the result is a plain error whose text
\* holds the text of err.
Wrap(prefix, e) == [type |-> "fmt", cause |-> <<prefix>> \o e.cause, code |-> e.code, msg |-> e.msg]

\* (mutation of WriteLockFree: Write without its lock)
WriteLockOpen == TRUE

\* Client.Write line 93: c.Lock() can be taken.
WriteLockFree == wmu = {}

\* (mutation of FatalErrSet: the test left out)
FatalErrIgnored == FALSE

\* Manager.request, line 107: the unlocked test of m.readErr.
FatalErrSet == readErr # NilErr

\* Manager.request lines 106-111 with Client.Write lines 72-90, for GetState
\* or SetState.  With a fatal error recorded the request returns it at once.
\* Otherwise Write is called: it fails with ErrNoKey when asked to encrypt
\* without a cipher, or when json.Marshal fails (SetState's state holds
\* arbitrary values), and nothing of the client has changed when it fails
\* here.  Goroutines are numbered in the order they start.
ReqStart(c) ==
    /\ Running
    /\ pc[c] = "idle"
    /\ \A d \in Callers : d < c => pc[d] # "idle"
    /\ \E k \in Kinds, marshals \in BOOLEAN :
         /\ k = "get" => marshals
         /\ kind' = [kind EXCEPT ![c] = k]
         /\ IF FatalErrSet
              THEN /\ result' = [result EXCEPT ![c] = Returned(readErr, NilResponse)]
                   /\ pc' = [pc EXCEPT ![c] = "done"]
              ELSE IF Encrypt(k) /\ ~hasCipher
                THEN /\ result' = [result EXCEPT ![c] =
                            Returned(Wrap("request Write", ErrNoKey), NilResponse)]
                     /\ pc' = [pc EXCEPT ![c] = "done"]
                ELSE IF ~marshals
                  THEN /\ result' = [result EXCEPT ![c] =
                              Returned(Wrap("request Write", Error("fmt", "payload Marshal")),
                                       NilResponse)]
                       /\ pc' = [pc EXCEPT ![c] = "done"]
                  ELSE /\ result' = result
                       /\ pc' = [pc EXCEPT ![c] = "wlock"]
    /\ UNCHANGED <<mgrVars, cliVars, rdVars, wseq, mySeq, chan, cpc, crashed, fnVars>>

\* Client.Write lines 93-100: c.Lock(), c.seq += 1, the frame takes c.seq.
WriteLock(c) ==
    /\ Running
    /\ pc[c] = "wlock"
    /\ WriteLockFree
    /\ wmu' = wmu \cup {c}
    /\ seq' = Inc(seq)
    /\ wseq' = [wseq EXCEPT ![c] = Inc(seq)]
    /\ pc' = [pc EXCEPT ![c] = "encode"]
    /\ UNCHANGED <<mgrVars, hasCipher, connOpen, closeCalls, stream, rdVars,
                   kind, mySeq, chan, result, cpc, crashed, fnVars>>

\* What Frame.Encode puts on the connection: the frame reaches the stream in
\* two pieces, the header with the payload and then the trailer.
Piece(s, k, part) == [Seq |-> s, Cmd |-> Cmd(k), part |-> part]

\* What request returns when Write has failed, line 113.
WriteFailed(cause) == Returned(Wrap("request Write", Error("fmt", cause)), NilResponse)

\* Client.Write line 101, Frame.Encode: buffer() refuses a payload over
\* MaxPayloadSize (only SetState's payload depends on the caller) and WriteTo
\* fails on a closed connection, and then Write returns the error (deferred
\* c.Unlock(); request lines 112-114); otherwise the first piece of the
\* frame goes on the stream.
WriteEncode(c) ==
    /\ Running
    /\ pc[c] = "encode"
    /\ \E tooLarge \in BOOLEAN :
         /\ kind[c] = "get" => ~tooLarge
         /\ IF tooLarge \/ ~connOpen
              THEN /\ result' = [result EXCEPT ![c] = WriteFailed("frame Encode")]
                   /\ pc' = [pc EXCEPT ![c] = "done"]
                   /\ wmu' = wmu \ {c}
                   /\ stream' = stream
              ELSE /\ stream' = Append(stream, Piece(wseq[c], kind[c], "head"))
                   /\ pc' = [pc EXCEPT ![c] = "encode2"]
                   /\ UNCHANGED <<result, wmu>>
    /\ UNCHANGED <<mgrVars, seq, hasCipher, connOpen, closeCalls, rdVars,
                   kind, wseq, mySeq, chan, cpc, crashed, fnVars>>

\* Client.Write lines 101-104, the rest of Frame.Encode: the write fails when
\* the connection has been closed meanwhile, leaving a torn frame behind;
\* otherwise the trailer goes on the stream and Write returns c.seq.  The
\* deferred c.Unlock() runs either way.
WriteFinish(c) ==
    /\ Running
    /\ pc[c] = "encode2"
    /\ wmu' = wmu \ {c}
    /\ IF ~connOpen
         THEN /\ result' = [result EXCEPT ![c] = WriteFailed("frame Encode")]
              /\ pc' = [pc EXCEPT ![c] = "done"]
              /\ UNCHANGED <<stream, mySeq>>
         ELSE /\ stream' = Append(stream, Piece(wseq[c], kind[c], "tail"))
              /\ mySeq' = [mySeq EXCEPT ![c] = seq]
              /\ pc' = [pc EXCEPT ![c] = "reqLock"]
              /\ result' = result
    /\ UNCHANGED <<mgrVars, seq, hasCipher, connOpen, closeCalls, rdVars,
                   kind, wseq, chan, cpc, crashed, fnVars>>

\* ------------------------------------------------------------- Manager.request
\* Lines 116-119: m.Lock(), make the channel, m.responseChans[seq] = respChan,
\* m.Unlock().  Nothing else runs under the lock, so this is one step, taken
\* when the lock is free.
ReqRegister(c) ==
    /\ Running
    /\ pc[c] = "reqLock"
    /\ mu = {}
    /\ chan' = [chan EXCEPT ![c] = "open"]
    /\ responseChans' = Put(responseChans, mySeq[c], c)
    /\ pc' = [pc EXCEPT ![c] = "wait"]
    /\ UNCHANGED <<closed, readErr, mu, cliVars, rdVars, kind, wseq, mySeq, result,
                   cpc, crashed, fnVars>>

\* Lines 123-134 on the value received from the channel: rs is the *Response
\* and e the readErr of the response struct.  Line 126 formats err, the (nil)
\* error of Write, and a nil *Response is dereferenced by Err and DecodeJSON.
Finish(c, rs, e) ==
    IF e # NilErr
      THEN Returned(Wrap("response", NilErr), rs)
      ELSE IF rs.isNil
        THEN Panicked(rs)
        ELSE IF kind[c] = "set"
          THEN Returned(RespErr(rs), rs)
          ELSE IF DecodeJSON(rs) # NilErr
            THEN Returned(Wrap("response Decode", DecodeJSON(rs)), rs)
            ELSE Returned(NilErr, rs)

\* Line 123 on a closed channel: the receive yields the zero response.
RecvClosed(c) ==
    /\ Running
    /\ pc[c] = "wait"
    /\ chan[c] = "closed"
    /\ result' = [result EXCEPT ![c] = Finish(c, NilResponse, NilErr)]
    /\ pc' = [pc EXCEPT ![c] = "done"]
    /\ UNCHANGED <<mgrVars, cliVars, rdVars, kind, wseq, mySeq, chan, cpc, crashed, fnVars>>


\* ------------------------------------------------------------- read loop
\* Manager.start line 62, Client.Read.  On an open connection the device's
\* next frame decodes (and decrypts) into a Response, or Read fails; an
\* encrypted payload on a client without a cipher dereferences the nil
\* c.cipher inside Read, which panics the goroutine before it takes m's lock.
\* On a closed connection Read fails.
ReaderRead ==
    /\ Running
    /\ rpc = "read"
    /\ \/ /\ connOpen
          /\ \E s \in RespSeqs, p \in Payloads :
               /\ res' = Response(s, p)
               /\ rerr' = NilErr
          /\ rpc' = "lock"
          /\ UNCHANGED <<panicking, cpc>>
       \/ /\ connOpen
          /\ \E f \in ReadFailures :
               /\ f = "Decrypt" => hasCipher
               /\ res' = NilResponse
               /\ rerr' = Error("fmt", f)
          /\ rpc' = "lock"
          /\ UNCHANGED <<panicking, cpc>>
       \/ /\ connOpen
          /\ ~hasCipher
          /\ panicking' = TRUE
          /\ rpc' = "defer"
          /\ cpc' = [cpc EXCEPT ![Reader] = "lock"]
          /\ UNCHANGED <<res, rerr>>
       \/ /\ ~connOpen
          /\ res' = NilResponse
          /\ rerr' = Error("fmt", "DecodeFrame")
          /\ rpc' = "lock"
          /\ UNCHANGED <<panicking, cpc>>
    /\ UNCHANGED <<mgrVars, cliVars, reqVars, crashed, fnVars>>

NoChan == 0
\* (mutation of LookupChan: any registered channel, whatever its key)
LookupAny(s) ==
    IF DOMAIN responseChans # {}
      THEN responseChans[CHOOSE k \in DOMAIN responseChans : TRUE]
      ELSE NoChan

\* Line 67: respChan, ok := m.responseChans[seq]
LookupChan(s) == IF s \in DOMAIN responseChans THEN responseChans[s] ELSE NoChan

\* (mutation of LoopEnd: the m.Unlock() of line 80 left out)
LoopEndNoUnlock ==
    IF rerr # NilErr
      THEN /\ readErr' = ReadError(rerr)
           /\ rpc' = "defer"
           /\ cpc' = [cpc EXCEPT ![Reader] = "lock"]
           /\ mu' = {Reader}
           /\ UNCHANGED <<res, rerr>>
      ELSE /\ mu' = {Reader}
           /\ rpc' = "read"
           /\ res' = NilResponse
           /\ rerr' = NilErr
           /\ UNCHANGED <<readErr, cpc>>

\* Lines 76-80, reached with the lock held: a read error is recorded and the
\* loop breaks with the lock still held; otherwise m.Unlock() and the loop
\* goes on to the next Read, where res and err are new variables.
LoopEnd ==
    IF rerr # NilErr
      THEN /\ readErr' = ReadError(rerr)
           /\ rpc' = "defer"
           /\ cpc' = [cpc EXCEPT ![Reader] = "lock"]
           /\ mu' = {Reader}
           /\ UNCHANGED <<res, rerr>>
      ELSE /\ mu' = {}
           /\ rpc' = "read"
           /\ res' = NilResponse
           /\ rerr' = NilErr
           /\ UNCHANGED <<readErr, cpc>>

\* Lines 63-67 and 73-80, all under m's lock.  m.Lock(); when the session is
\* closed the loop breaks (with the lock held) into the deferred m.Close().
\* Otherwise res.Seq dereferences res, which is nil when Read failed: the
\* goroutine panics with the lock held and runs the deferred m.Close().
\* Otherwise the channel registered under res.Seq is looked up and the loop
\* goes on to send on it; without one the frame is logged and dropped, and
\* (lines 76-80) a read error is recorded and the loop breaks with the lock
\* held, or m.Unlock() and the loop goes on to the next Read.
ReaderLock ==
    /\ Running
    /\ rpc = "lock"
    /\ mu = {}
    /\ IF closed
         THEN /\ mu' = {Reader}
              /\ rpc' = "defer"
              /\ cpc' = [cpc EXCEPT ![Reader] = "lock"]
              /\ UNCHANGED <<panicking, readErr, res, rerr>>
         ELSE IF res.isNil
           THEN /\ mu' = {Reader}
                /\ panicking' = TRUE
                /\ rpc' = "defer"
                /\ cpc' = [cpc EXCEPT ![Reader] = "lock"]
                /\ UNCHANGED <<readErr, res, rerr>>
           ELSE IF LookupChan(res.Seq) # NoChan
             THEN /\ mu' = {Reader}
                  /\ rpc' = "send"
                  /\ UNCHANGED <<panicking, cpc, readErr, res, rerr>>
             ELSE /\ LoopEnd
                  /\ UNCHANGED panicking
    /\ UNCHANGED <<closed, responseChans, cliVars, reqVars, crashed, fnVars>>

\* Lines 68-72 together with line 123 of the request that receives: the send
\* on the unbuffered channel completes when its receiver takes the value;
\* then the entry is deleted and (lines 76-80) a read error is recorded and
\* the loop breaks with the lock held, or m.Unlock() and the next Read.
Deliver(c) ==
    /\ Running
    /\ rpc = "send"
    /\ LookupChan(res.Seq) = c
    /\ pc[c] = "wait"
    /\ chan[c] = "open"
    /\ result' = [result EXCEPT ![c] = Finish(c, res, rerr)]
    /\ pc' = [pc EXCEPT ![c] = "done"]
    /\ responseChans' = Del(responseChans, res.Seq)
    /\ LoopEnd
    /\ UNCHANGED <<closed, cliVars, panicking, kind, wseq, mySeq, chan, crashed, fnVars>>

\* Line 60, after the deferred m.Close() has returned: the goroutine ends,
\* and a panic that was unwinding it kills the process.
ReaderExit ==
    /\ Running
    /\ rpc = "defer"
    /\ cpc[Reader] = "done"
    /\ rpc' = "exit"
    /\ crashed' = panicking
    /\ UNCHANGED <<mgrVars, cliVars, res, rerr, panicking, reqVars, cpc, fnVars>>

\* ------------------------------------------------------------- Manager.Close
\* A goroutine calls m.Close().  Goroutines are numbered in the order they call.
CloseCall(p) ==
    /\ Running
    /\ p \in Closers
    /\ cpc[p] = "idle"
    /\ \A q \in Closers : q < p => cpc[q] # "idle"
    /\ cpc' = [cpc EXCEPT ![p] = "lock"]
    /\ UNCHANGED <<mgrVars, cliVars, rdVars, reqVars, crashed, fnVars>>

\* m.Lock() can be taken: sync.Mutex is not reentrant.
MutexFree == mu = {}

\* (mutation of CloseErr: every Close records an error of its own)
CloseErrAgain == IF readErr = NilErr THEN ErrClosed ELSE Wrap("Close", readErr)

\* m.readErr after lines 48-50.
CloseErr == IF readErr = NilErr THEN ErrClosed ELSE readErr

\* Lines 45-54: m.Lock(), closed, readErr, and every registered channel is
\* deleted from the table and closed.  Of the explicit calls waiting for the
\* lock, which are all alike, the lowest-numbered is taken to get it first.
CloseLock(p) ==
    /\ Running
    /\ cpc[p] = "lock"
    /\ \A q \in Closers : q < p => cpc[q] # "lock"
    /\ MutexFree
    /\ mu' = mu \cup {p}
    /\ closed' = TRUE
    /\ readErr' = CloseErr
    /\ chan' = [c \in Callers |->
                  IF c \in Range(responseChans) THEN "closed" ELSE chan[c]]
    /\ responseChans' = EmptyMap
    /\ cpc' = [cpc EXCEPT ![p] = "conn"]
    /\ UNCHANGED <<cliVars, rdVars, pc, kind, wseq, mySeq, result, crashed, fnVars>>

\* Lines 55 and 46: m.client.Close() (Client.Close closes the connection),
\* then the deferred m.Unlock().
CloseConn(p) ==
    /\ Running
    /\ cpc[p] = "conn"
    /\ connOpen' = FALSE
    /\ closeCalls' = closeCalls + 1
    /\ mu' = mu \ {p}
    /\ cpc' = [cpc EXCEPT ![p] = "done"]
    /\ UNCHANGED <<closed, readErr, responseChans, seq, wmu, hasCipher, stream,
                   rdVars, reqVars, crashed, fnVars>>

Next ==
    \/ \E c \in Callers :
         \/ ReqStart(c)
         \/ WriteLock(c)
         \/ WriteEncode(c)
         \/ WriteFinish(c)
         \/ ReqRegister(c)
         \/ RecvClosed(c)
         \/ Deliver(c)
    \/ ReaderRead
    \/ ReaderLock
    \/ ReaderExit
    \/ \E p \in CloseProcs :
         \/ CloseCall(p)
         \/ CloseLock(p)
         \/ CloseConn(p)

Spec == Init /\ [][Next]_vars

\* Concurrent writers alone: the requests' Client.Write calls and Close, with
\* the read loop left blocked in Read, on a fresh or a long-used client.
NextWrite ==
    \/ \E c \in Callers :
         \/ ReqStart(c)
         \/ WriteLock(c)
         \/ WriteEncode(c)
         \/ WriteFinish(c)
    \/ \E p \in Closers :
         \/ CloseCall(p)
         \/ CloseLock(p)
         \/ CloseConn(p)

SpecWrite == InitWrite /\ [][NextWrite]_vars


\* ------------------------------------------------------------- properties
\* The request of c has been resolved with a frame read by the read loop.
GotFrame(c) == result[c].state # "none" /\ ~result[c].frame.isNil

\* The read loop goroutine can never take another step: it has ended, or it
\* is inside its deferred m.Close() waiting for the lock it holds itself.
ReaderHalted ==
    \/ rpc = "exit"
    \/ rpc = "defer" /\ cpc[Reader] = "lock" /\ Reader \in mu

\* The read loop halted after Client.Read failed on a session that was still
\* open when the loop looked at the result (line 64 passed).
HaltedOnReadError == ReaderHalted /\ rerr # NilErr /\ panicking

\* The request of c is blocked: receiving from a channel nobody has
\* signalled, or waiting for m's lock.
Blocked(c) == (pc[c] = "wait" /\ chan[c] = "open") \/ pc[c] = "reqLock"

\* The session has entered the closed/failed state: a fatal error is
\* recorded, or a Close call has returned.
SessionFailed == readErr # NilErr \/ \E p \in CloseProcs : cpc[p] = "done"

\* C1: a caller that is resolved with a response frame is resolved with the
\* frame whose Seq is the sequence number its own Write returned, in whatever
\* order the read loop reads the frames.
C1_OwnResponse ==
    \A c \in Callers : GotFrame(c) => result[c].frame.Seq = mySeq[c]

\* C1 witness: two requests with different sequence numbers, the later one
\* already resolved with its own frame while the earlier one still waits and
\* the read loop is about to hand the earlier one its frame.
C1_OutOfOrder ==
    \E c, d \in Callers :
        /\ U32Less(mySeq[c], mySeq[d])
        /\ pc[c] = "wait" /\ chan[c] = "open"
        /\ GotFrame(d) /\ result[d].frame.Seq = mySeq[d]
        /\ rpc = "send" /\ res.Seq = mySeq[c]

\* C2 (as claimed): a caller whose channel Close has closed returns a
\* closed/fatal error (ErrClosed or the recorded read error), and ends in no
\* other way.
C2_ClosedCallersGetError ==
    \A c \in Callers :
        (chan[c] = "closed" /\ pc[c] = "done") =>
            /\ result[c].state = "returned"
            /\ result[c].err.type \in {"ErrClosed", "Read"}

\* C3: a request started once the session is closed/failed returns the
\* recorded fatal error in that one step, without a Write: the sequence
\* counter, the write lock, the stream and the pending table are untouched.
C3_FailFast ==
    [][\A c \in Callers :
         (pc[c] = "idle" /\ pc'[c] # "idle" /\ SessionFailed) =>
            /\ pc'[c] = "done"
            /\ result'[c] = Returned(readErr, NilResponse)
            /\ readErr # NilErr
            /\ UNCHANGED <<seq, wmu, stream, responseChans, chan>>]_vars

\* C3 witness: after a Close has returned, a request has come back with
\* ErrClosed while nothing was ever written.
C3_RejectedAfterClose ==
    \E c \in Callers, p \in Closers :
        /\ cpc[p] = "done"
        /\ result[c] = Returned(ErrClosed, NilResponse)
        /\ seq = Zero /\ stream = << >>

\* C4 (as claimed): Close is idempotent: the connection is closed by the
\* first call only, and once a Close call has returned no later Close call
\* (the read loop's deferred one included) blocks forever.
C4_CloseOnce ==
    /\ closeCalls <= 1
    /\ (\E p \in CloseProcs : cpc[p] = "done") =>
          ~(rpc = "defer" /\ cpc[Reader] = "lock" /\ Reader \in mu)

\* C5 (as claimed): when Read has failed on an open session and the read
\* loop goroutine has come to its end, the session is closed, the read error
\* is the recorded fatal error and the connection is closed.
C5_ReadErrorRecorded ==
    HaltedOnReadError =>
        /\ closed
        /\ readErr = ReadError(rerr)
        /\ ~connOpen

\* C6 (as claimed): once the read loop has come to its end after a read
\* failure, no request is left blocked: the pending ones have been signalled
\* and later ones do not wait.
C6_ReadFailureUnblocksAll ==
    HaltedOnReadError => \A c \in Callers : ~Blocked(c)

\* C7 (as claimed): a frame the read loop reads after the Write of the
\* request it answers has returned is never dropped as unmatched for want
\* of the request's registration.
C7_NoDropBeforeRegister ==
    [][(rpc = "lock" /\ rpc' = "read") =>
          ~\E c \in Callers : pc[c] = "reqLock" /\ mySeq[c] = res.Seq]_vars

\* C8 (as claimed): a request that overlaps Close is never left blocked on
\* a closed session whose read loop has come to its end: no channel stays
\* registered and unsignalled, no request waits for the lock.
C8_NoOrphanAfterClose ==
    (closed /\ ReaderHalted /\ ~panicking) => \A c \in Callers : ~Blocked(c)

\* The read loop, having read a frame, takes the lock and finds no channel
\* registered under the frame's sequence number.
Unmatched == rpc = "lock" /\ rpc' # "lock" /\ ~res.isNil /\ res.Seq \notin DOMAIN responseChans

\* The frame is dropped: nothing of the session or of any request changes,
\* the lock is free again and the loop is back in Read.
Dropped ==
    /\ rpc' = "read"
    /\ mu' = {}
    /\ UNCHANGED <<responseChans, closed, readErr, pc, chan, result, connOpen, cpc>>

\* C9 (as claimed): a frame that matches no pending entry is dropped, nothing
\* else changes and the loop goes on to read the next frame.
C9_UnmatchedDropped == [][Unmatched => Dropped]_vars

\* C9 (amended): the same, for a session that is not closed when the loop
\* takes the lock.
C9_UnmatchedDroppedOpen == [][(Unmatched /\ ~closed) => Dropped]_vars

\* C9 witness: an unmatched frame is about to be looked up on an open
\* session while another request is pending.
C9_UnmatchedWithPending ==
    /\ rpc = "lock" /\ mu = {} /\ ~closed
    /\ ~res.isNil /\ res.Seq \notin DOMAIN responseChans
    /\ \E c \in Callers : pc[c] = "wait" /\ chan[c] = "open"

\* Inc applied n times.
RECURSIVE IncN(_, _)
IncN(u, n) == IF n = 0 THEN u ELSE IncN(Inc(u), n - 1)

\* The Write of c has taken the write lock (and with it a sequence number).
TookLock(c) ==
    \/ pc[c] \in {"encode", "encode2", "reqLock", "wait"}
    \/ pc[c] = "done" /\ chan[c] # "none"
    \/ pc[c] = "done" /\ result[c] = WriteFailed("frame Encode")

\* The Write of c has returned its sequence number.
WriteReturned(c) ==
    \/ pc[c] \in {"reqLock", "wait"}
    \/ pc[c] = "done" /\ chan[c] # "none"

\* The sequence numbers of the whole frames on the stream, in stream order.
RECURSIVE FrameSeqs(_)
FrameSeqs(st) ==
    IF st = << >>
      THEN << >>
      ELSE IF Head(st).part = "tail"
        THEN <<Head(st).Seq>> \o FrameSeqs(Tail(st))
        ELSE FrameSeqs(Tail(st))

\* Frames are whole on the stream: a trailer directly follows its own header
\* and payload, and a header with no trailer is the end of the stream.  Every
\* successful Write's frame is there once, carrying the number returned to
\* the caller and the caller's command, and nothing else is.
FramesAsReturned ==
    /\ \A i \in DOMAIN stream :
         /\ stream[i].part = "tail" =>
              i > 1 /\ stream[i - 1] = [stream[i] EXCEPT !.part = "head"]
         /\ (stream[i].part = "head" /\ i < Len(stream)) =>
              stream[i + 1] = [stream[i] EXCEPT !.part = "tail"]
    /\ \A c \in Callers :
         WriteReturned(c) =>
            /\ mySeq[c] = wseq[c]
            /\ Cardinality({i \in DOMAIN stream : stream[i].Seq = mySeq[c]}) = 2
            /\ \E i \in DOMAIN stream : stream[i] = Piece(mySeq[c], kind[c], "tail")
    /\ Len(FrameSeqs(stream)) = Cardinality({c \in Callers : WriteReturned(c)})

RemoteFailure(c) ==
    /\ result[c].state = "returned"
    /\ ~result[c].frame.isNil
    /\ Len(result[c].frame.Payload) >= 4
    /\ BigEndianUint32(result[c].frame.Payload) # Zero

\* C11 (as claimed): a request resolved with a frame of non-zero status code
\* returns a ResponseError value carrying the code and the message, for
\* GetState as for SetState.
C11_RemoteErrorReturned ==
    \A c \in Callers :
        RemoteFailure(c) =>
            result[c].err = ResponseError(BigEndianUint32(result[c].frame.Payload),
                                          SubSeq(result[c].frame.Payload, 5,
                                                 Len(result[c].frame.Payload)))

\* ------------------------------------------------------------- Response on its own
\* Longest response payload tried.
MaxRespLen == 6
\* Byte values of the payloads tried: 0 and 1 for status codes, 255 for the
\* high bytes, '{' and '}' for a JSON body.
RespBytes == {0, 1, 123, 125, 255}
SeqsUpTo(S, n) == UNION {[1..k -> S] : k \in 0..n}

\* A Response with any payload, as Client.Read may return it, before one of
\* its methods is called.
InitResponse ==
    /\ seq = Zero
    /\ InitSession
    /\ arg \in {[fn |-> "Response", r |-> Response(One, p)] : p \in SeqsUpTo(RespBytes, MaxRespLen)}
    /\ ret = NoCall

\* r.Err()
CallErr ==
    /\ ret = NoCall
    /\ ret' = [fn |-> "Err", err |-> RespErr(arg.r)]
    /\ UNCHANGED <<mgrVars, cliVars, rdVars, reqVars, cpc, crashed, arg>>

\* r.Bytes()
CallBytes ==
    /\ ret = NoCall
    /\ ret' = [fn |-> "Bytes", data |-> Bytes(arg.r).data, err |-> Bytes(arg.r).err]
    /\ UNCHANGED <<mgrVars, cliVars, rdVars, reqVars, cpc, crashed, arg>>

\* r.DecodeJSON(v): v is left with what json.Unmarshal was given when it
\* succeeds.
CallDecodeJSON ==
    /\ ret = NoCall
    /\ ret' = [fn |-> "DecodeJSON", err |-> DecodeJSON(arg.r),
               v |-> IF DecodeJSON(arg.r) = NilErr THEN Bytes(arg.r).data ELSE << >>]
    /\ UNCHANGED <<mgrVars, cliVars, rdVars, reqVars, cpc, crashed, arg>>

NextResponse ==
    \/ CallErr
    \/ CallBytes
    \/ CallDecodeJSON

SpecResponse == InitResponse /\ [][NextResponse]_vars

\* The payload without its first four bytes.
Body(p) == SubSeq(p, 5, Len(p))

\* C12: for every payload, a payload of at least 4 bytes starting with four
\* zero bytes makes Err return nil and Bytes and DecodeJSON work on exactly
\* payload[4:]; one starting with a non-zero code c makes Err return
\* ResponseError{c, payload[4:]} (and Bytes and DecodeJSON return it too); a
\* payload of fewer than 4 bytes makes Err return an error that is not a
\* ResponseError.
C12_StatusDecoding ==
    ret # NoCall =>
        LET p == arg.r.Payload
            ok == Len(p) >= 4 /\ p[1] = 0 /\ p[2] = 0 /\ p[3] = 0 /\ p[4] = 0
            remote == Len(p) >= 4 /\ ~ok
            code == U32(p[1] * 256 + p[2], p[3] * 256 + p[4])
        IN  /\ (ret.fn = "Err" /\ ok) => ret.err = NilErr
            /\ (ret.fn = "Bytes" /\ ok) => (ret.err = NilErr /\ ret.data = Body(p))
            /\ (ret.fn = "DecodeJSON" /\ ok) =>
                   /\ ret.err = NilErr <=> ValidJSON(Body(p))
                   /\ ret.err = NilErr => ret.v = Body(p)
                   /\ ret.err # NilErr => ret.err.type = "fmt"
            /\ remote => ret.err = ResponseError(code, Body(p))
            /\ Len(p) < 4 => ret.err.type \notin {"nil", "ResponseError"}

\* C12 witness: Bytes has returned the non-empty body of a payload whose
\* status code is zero.
C12_BodyReturned ==
    /\ ret # NoCall
    /\ ret.fn = "Bytes"
    /\ ret.err = NilErr
    /\ Len(arg.r.Payload) > 4
    /\ ret.data = Body(arg.r.Payload)

\* ------------------------------------------------------------- frame codec
\* A byte string is a sequence of numbers in 0..255.  A uint32 on the wire
\* is four bytes, big-endian.
\* (mutation of PutU32: the bytes in little-endian order)
PutU32LE(u) == <<u.lo % 256, u.lo \div 256, u.hi % 256, u.hi \div 256>>
PutU32(u) == <<u.hi \div 256, u.hi % 256, u.lo \div 256, u.lo % 256>>
GetU32(b, i) == U32(b[i] * 256 + b[i + 1], b[i + 2] * 256 + b[i + 3])

prefixValue == U32(0, 21930)
suffixValue == U32(0, 43605)
maxPacketSize == 65535
headerSize == 16
trailerSize == 8
MaxPayloadSize == maxPacketSize - trailerSize

\* Bitwise exclusive or of two numbers below 2^n, made half by half.
RECURSIVE XorN(_, _, _)
XorN(a, b, n) ==
    IF n = 1
      THEN (a + b) % 2
      ELSE LET h == n \div 2
           IN  XorN(a % (2 ^ h), b % (2 ^ h), h)
                 + (2 ^ h) * XorN(a \div (2 ^ h), b \div (2 ^ h), n - h)
XorU32(u, v) == U32(XorN(u.hi, v.hi, 16), XorN(u.lo, v.lo, 16))
\* u >> 1
Shr1(u) == U32(u.hi \div 2, (u.hi % 2) * 32768 + u.lo \div 2)

\* hash/crc32 with the IEEE polynomial, computed bit by bit on its reflected
\* form 0xedb88320: the register starts as 0xffffffff and is inverted at the
\* end.
crcPoly == U32(60856, 33568)
CrcBit(u) == IF u.lo % 2 = 1 THEN XorU32(Shr1(u), crcPoly) ELSE Shr1(u)
\* n steps of the register, made half by half: the tuple is made in order,
\* v before the steps that start from v.
RECURSIVE CrcBits(_, _)
CrcBits(u, n) ==
    IF n = 1
      THEN CrcBit(u)
      ELSE LET v == CrcBits(u, n \div 2) IN <<v, CrcBits(v, n - n \div 2)>>[2]
CrcByte(u, b) == CrcBits(U32(u.hi, (u.lo \div 256) * 256 + XorN(u.lo % 256, b, 8)), 8)
\* The register after the n bytes of b from b[i].
RECURSIVE CrcUpdate(_, _, _, _)
CrcUpdate(u, b, i, n) ==
    IF n = 0 THEN u
    ELSE IF n = 1 THEN CrcByte(u, b[i])
    ELSE LET v == CrcUpdate(u, b, i, n \div 2)
         IN  <<v, CrcUpdate(v, b, i + n \div 2, n - n \div 2)>>[2]
\* crc32.ChecksumIEEE(b)
ChecksumIEEE(b) == XorU32(CrcUpdate(MaxU32, b, 1, Len(b)), MaxU32)

\* A Frame.  Payload is the slice's contents (its length is len(Payload));
\* spare is what the backing array holds beyond the slice's length, so that
\* cap(Payload) = Len(Payload) + Len(spare).
Frame(s, c, p) == [Seq |-> s, Cmd |-> c, Payload |-> p, spare |-> << >>]
Cap(f) == Len(f.Payload) + Len(f.spare)
Zeros(n) == [i \in 1..n |-> 0]

\* Frame.buffer: the wire form of a frame, or an error for a payload over
\* MaxPayloadSize.
buffer(f) ==
    IF Len(f.Payload) > MaxPayloadSize
      THEN [err |-> Error("fmt", "payload too large"), bytes |-> << >>]
      ELSE LET body == PutU32(prefixValue) \o PutU32(f.Seq) \o PutU32(f.Cmd)
                          \o PutU32(U32(0, Len(f.Payload) + trailerSize)) \o f.Payload
           IN  [err |-> NilErr,
                bytes |-> body \o PutU32(ChecksumIEEE(body)) \o PutU32(suffixValue)]

\* Frame.Encode into a writer that takes everything (a bytes.Buffer).
Encode(f) == buffer(f)

\* What Decode returns: an error (NilErr on success) or a run-time panic,
\* the Frame as Decode left it, and the bytes of the reader still unread.
Decoded(e, f, rest) == [state |-> "returned", err |-> e, f |-> f, rest |-> rest]
DecodePanic(f, rest) == [state |-> "panic", err |-> NilErr, f |-> f, rest |-> rest]

\* payloadSize > n, where payloadSize = int(h.Length) - trailerSize and int
\* has 64 bits, for 0 <= n < 2^16.
PayloadSizeOver(length, n) == length.hi > 0 \/ length.lo - trailerSize > n

\* Frame.Decode of the bytes b into the Frame f.
Decode(f, b) ==
    IF Len(b) < headerSize
      THEN Decoded(Error("fmt", "header Read"), f, << >>)
    ELSE IF GetU32(b, 1) # prefixValue
      THEN Decoded(Error("fmt", "bad prefix"), f, SubSeq(b, headerSize + 1, Len(b)))
    ELSE
      LET length == GetU32(b, 13)
          f1 == [f EXCEPT !.Seq = GetU32(b, 5), !.Cmd = GetU32(b, 9)]
          after == SubSeq(b, headerSize + 1, Len(b))
          size == length.lo - trailerSize
      IN
      IF PayloadSizeOver(length, Cap(f)) /\ PayloadSizeOver(length, MaxPayloadSize)
        THEN Decoded(Error("fmt", "payload too large"), f1, after)
      ELSE IF ~PayloadSizeOver(length, Cap(f)) /\ size < 0
        THEN DecodePanic(f1, after)
      ELSE
        LET back == IF PayloadSizeOver(length, Cap(f))
                      THEN Zeros(size)
                      ELSE f.Payload \o f.spare
            got == IF Len(after) < size THEN Len(after) ELSE size
            f2 == [f1 EXCEPT !.Payload = SubSeq(after, 1, got) \o SubSeq(back, got + 1, size),
                             !.spare = SubSeq(back, size + 1, Len(back))]
            rest == SubSeq(after, got + 1, Len(after))
        IN
        IF got < size
          THEN Decoded(Error("fmt", "payload Read"), f2, rest)
        ELSE IF Len(rest) < trailerSize
          THEN Decoded(Error("fmt", "trailer Read"), f2, << >>)
        ELSE IF GetU32(rest, 5) # suffixValue
          THEN Decoded(Error("fmt", "bad suffix"), f2, SubSeq(rest, trailerSize + 1, Len(rest)))
        ELSE IF ChecksumIEEE(SubSeq(b, 1, headerSize + size)) # GetU32(rest, 1)
          THEN Decoded(Error("fmt", "crc mismatch"), f2, SubSeq(rest, trailerSize + 1, Len(rest)))
        ELSE Decoded(NilErr, f2, SubSeq(rest, trailerSize + 1, Len(rest)))

\* DecodeFrame: Decode into a new Frame.
DecodeFrame(b) == Decode(Frame(Zero, Zero, << >>), b)

\* ------------------------------------------------------------- the codec on its own
\* Longest frame payload tried.
MaxFrameLen == 2
\* Frames given to Encode.
FrameSeqNums == {One, MaxU32}
FrameCmds == {U32(0, 10)}
FrameBytes == {0, 255}
Frames == {Frame(s, c, p) : s \in FrameSeqNums, c \in FrameCmds,
                             p \in SeqsUpTo(FrameBytes, MaxFrameLen)}
\* Values a byte of the encoded frame is changed to on the way.
CorruptBytes == {0, 1, 8, 255}
\* Frames handed to Decode with a Payload buffer of their own: of length 1
\* and capacity 1, and of length 2 and capacity 4.
Buffers == { [Seq |-> Zero, Cmd |-> Zero, Payload |-> <<9>>, spare |-> << >>],
             [Seq |-> Zero, Cmd |-> Zero, Payload |-> <<9, 9>>, spare |-> <<9, 9>>] }

InitFrame ==
    /\ seq = Zero
    /\ InitSession
    /\ hasCipher
    /\ arg \in {[fn |-> "Frame", f |-> f] : f \in Frames}
    /\ ret = NoCall

\* f.Encode(&buf)
CallEncode ==
    /\ ret = NoCall
    /\ LET e == Encode(arg.f)
       IN  ret' = [fn |-> "Encode", err |-> e.err, bytes |-> e.bytes, pos |-> 0]
    /\ UNCHANGED <<mgrVars, cliVars, rdVars, reqVars, cpc, crashed, arg>>

\* One byte of the encoded frame is changed before it is decoded.
Corrupt ==
    /\ ret.fn = "Encode"
    /\ ret.err = NilErr
    /\ \E i \in 1..Len(ret.bytes), v \in CorruptBytes :
         /\ v # ret.bytes[i]
         /\ ret' = [fn |-> "Corrupt", err |-> NilErr,
                    bytes |-> [ret.bytes EXCEPT ![i] = v], pos |-> i]
    /\ UNCHANGED <<mgrVars, cliVars, rdVars, reqVars, cpc, crashed, arg>>

\* DecodeFrame(r) on a reader holding the bytes.
CallDecodeFrame ==
    /\ ret.fn \in {"Encode", "Corrupt"}
    /\ ret.err = NilErr
    /\ ret' = [fn |-> "DecodeFrame", in |-> ret.bytes, pos |-> ret.pos,
               dst |-> Frame(Zero, Zero, << >>), out |-> DecodeFrame(ret.bytes)]
    /\ UNCHANGED <<mgrVars, cliVars, rdVars, reqVars, cpc, crashed, arg>>

\* dst.Decode(r) into a Frame that has a Payload buffer already.
CallDecode ==
    /\ ret.fn \in {"Encode", "Corrupt"}
    /\ ret.err = NilErr
    /\ \E dst \in Buffers :
         ret' = [fn |-> "Decode", in |-> ret.bytes, pos |-> ret.pos,
                 dst |-> dst, out |-> Decode(dst, ret.bytes)]
    /\ UNCHANGED <<mgrVars, cliVars, rdVars, reqVars, cpc, crashed, arg>>

NextFrame ==
    \/ CallEncode
    \/ Corrupt
    \/ CallDecodeFrame
    \/ CallDecode

SpecFrame == InitFrame /\ [][NextFrame]_vars

\* A decode call has returned or panicked.
DecodeDone == ret # NoCall /\ ret.fn \in {"DecodeFrame", "Decode"}

\* C13: for every frame with a payload within MaxPayloadSize Encode
\* succeeds, and decoding the encoded bytes (with DecodeFrame, or with Decode
\* into a Frame that has a buffer) succeeds, leaves no byte unread and
\* yields the same Seq, Cmd and Payload.
C13_RoundTrip ==
    /\ (ret # NoCall /\ ret.fn = "Encode") =>
          /\ ret.err = NilErr
          /\ Len(ret.bytes) = headerSize + Len(arg.f.Payload) + trailerSize
    /\ (DecodeDone /\ ret.pos = 0) =>
          /\ ret.out.state = "returned"
          /\ ret.out.err = NilErr
          /\ ret.out.rest = << >>
          /\ ret.out.f.Seq = arg.f.Seq
          /\ ret.out.f.Cmd = arg.f.Cmd
          /\ ret.out.f.Payload = arg.f.Payload

\* C13 witness: DecodeFrame has decoded the encoding of a frame with the
\* highest sequence number and a payload of MaxFrameLen bytes.
C13_DecodedLongest ==
    /\ ret # NoCall
    /\ ret.fn = "DecodeFrame"
    /\ ret.pos = 0
    /\ arg.f.Seq = MaxU32
    /\ Len(arg.f.Payload) = MaxFrameLen
    /\ ret.out.f.Payload = arg.f.Payload

\* Where a byte of an encoded frame lies: the prefix magic (bytes 1-4), the
\* rest of the header with the payload, the CRC field, the suffix magic.
InPrefix(i) == i \in 1..4
InCRC(i, n) == i \in (n - 7)..(n - 4)
InSuffix(i, n) == i \in (n - 3)..n
InChecked(i, n) == i \in 5..(n - 8)

\* C14 (as claimed): after one byte of a validly encoded frame is changed,
\* Decode fails with a checksum mismatch when the byte lies between the
\* header (after the magic) and the end of the payload or in the CRC field,
\* and with a bad-magic error when it lies in the prefix or the suffix.
C14_ChecksumIntegrity ==
    (DecodeDone /\ ret.pos > 0) =>
        LET n == Len(ret.in)
        IN  /\ ret.out.state = "returned"
            /\ (InChecked(ret.pos, n) \/ InCRC(ret.pos, n)) =>
                   ret.out.err = Error("fmt", "crc mismatch")
            /\ InPrefix(ret.pos) => ret.out.err = Error("fmt", "bad prefix")
            /\ InSuffix(ret.pos, n) => ret.out.err = Error("fmt", "bad suffix")

\* The length field of the header that was decoded.
WireLength == GetU32(ret.in, 13)

\* C20 (as claimed): a header whose length field is below 8 or gives a
\* payload size over MaxPayloadSize makes Decode return an error, whatever
\* Payload buffer the Frame decoded into carries.
C20_LengthValidated ==
    (/\ DecodeDone
     /\ GetU32(ret.in, 1) = prefixValue
     /\ \/ WireLength.hi = 0 /\ WireLength.lo < trailerSize
        \/ PayloadSizeOver(WireLength, MaxPayloadSize)) =>
        /\ ret.out.state = "returned"
        /\ ret.out.err # NilErr

\* ------------------------------------------------------------- cipher
version == <<51, 46, 49>>
tagSize == 16
\* c.aes.BlockSize()
blockSize == 16

ErrPadding == Error("ErrPadding", "padding error")
ErrTagVerification == Error("ErrTagVerification", "tag verification failed")
ErrTooSmall == Error("ErrTooSmall", "ciphertext too small")

\* Exclusive or, and, or of two 4-bit numbers a and b, at index 16 * a + b + 1.
Xor4 ==
    << 0, 1, 2, 3, 4, 5, 6, 7, 8, 9, 10, 11, 12, 13, 14, 15,
       1, 0, 3, 2, 5, 4, 7, 6, 9, 8, 11, 10, 13, 12, 15, 14,
       2, 3, 0, 1, 6, 7, 4, 5, 10, 11, 8, 9, 14, 15, 12, 13,
       3, 2, 1, 0, 7, 6, 5, 4, 11, 10, 9, 8, 15, 14, 13, 12,
       4, 5, 6, 7, 0, 1, 2, 3, 12, 13, 14, 15, 8, 9, 10, 11,
       5, 4, 7, 6, 1, 0, 3, 2, 13, 12, 15, 14, 9, 8, 11, 10,
       6, 7, 4, 5, 2, 3, 0, 1, 14, 15, 12, 13, 10, 11, 8, 9,
       7, 6, 5, 4, 3, 2, 1, 0, 15, 14, 13, 12, 11, 10, 9, 8,
       8, 9, 10, 11, 12, 13, 14, 15, 0, 1, 2, 3, 4, 5, 6, 7,
       9, 8, 11, 10, 13, 12, 15, 14, 1, 0, 3, 2, 5, 4, 7, 6,
       10, 11, 8, 9, 14, 15, 12, 13, 2, 3, 0, 1, 6, 7, 4, 5,
       11, 10, 9, 8, 15, 14, 13, 12, 3, 2, 1, 0, 7, 6, 5, 4,
       12, 13, 14, 15, 8, 9, 10, 11, 4, 5, 6, 7, 0, 1, 2, 3,
       13, 12, 15, 14, 9, 8, 11, 10, 5, 4, 7, 6, 1, 0, 3, 2,
       14, 15, 12, 13, 10, 11, 8, 9, 6, 7, 4, 5, 2, 3, 0, 1,
       15, 14, 13, 12, 11, 10, 9, 8, 7, 6, 5, 4, 3, 2, 1, 0 >>

And4 ==
    << 0, 0, 0, 0, 0, 0, 0, 0, 0, 0, 0, 0, 0, 0, 0, 0,
       0, 1, 0, 1, 0, 1, 0, 1, 0, 1, 0, 1, 0, 1, 0, 1,
       0, 0, 2, 2, 0, 0, 2, 2, 0, 0, 2, 2, 0, 0, 2, 2,
       0, 1, 2, 3, 0, 1, 2, 3, 0, 1, 2, 3, 0, 1, 2, 3,
       0, 0, 0, 0, 4, 4, 4, 4, 0, 0, 0, 0, 4, 4, 4, 4,
       0, 1, 0, 1, 4, 5, 4, 5, 0, 1, 0, 1, 4, 5, 4, 5,
       0, 0, 2, 2, 4, 4, 6, 6, 0, 0, 2, 2, 4, 4, 6, 6,
       0, 1, 2, 3, 4, 5, 6, 7, 0, 1, 2, 3, 4, 5, 6, 7,
       0, 0, 0, 0, 0, 0, 0, 0, 8, 8, 8, 8, 8, 8, 8, 8,
       0, 1, 0, 1, 0, 1, 0, 1, 8, 9, 8, 9, 8, 9, 8, 9,
       0, 0, 2, 2, 0, 0, 2, 2, 8, 8, 10, 10, 8, 8, 10, 10,
       0, 1, 2, 3, 0, 1, 2, 3, 8, 9, 10, 11, 8, 9, 10, 11,
       0, 0, 0, 0, 4, 4, 4, 4, 8, 8, 8, 8, 12, 12, 12, 12,
       0, 1, 0, 1, 4, 5, 4, 5, 8, 9, 8, 9, 12, 13, 12, 13,
       0, 0, 2, 2, 4, 4, 6, 6, 8, 8, 10, 10, 12, 12, 14, 14,
       0, 1, 2, 3, 4, 5, 6, 7, 8, 9, 10, 11, 12, 13, 14, 15 >>

Or4 ==
    << 0, 1, 2, 3, 4, 5, 6, 7, 8, 9, 10, 11, 12, 13, 14, 15,
       1, 1, 3, 3, 5, 5, 7, 7, 9, 9, 11, 11, 13, 13, 15, 15,
       2, 3, 2, 3, 6, 7, 6, 7, 10, 11, 10, 11, 14, 15, 14, 15,
       3, 3, 3, 3, 7, 7, 7, 7, 11, 11, 11, 11, 15, 15, 15, 15,
       4, 5, 6, 7, 4, 5, 6, 7, 12, 13, 14, 15, 12, 13, 14, 15,
       5, 5, 7, 7, 5, 5, 7, 7, 13, 13, 15, 15, 13, 13, 15, 15,
       6, 7, 6, 7, 6, 7, 6, 7, 14, 15, 14, 15, 14, 15, 14, 15,
       7, 7, 7, 7, 7, 7, 7, 7, 15, 15, 15, 15, 15, 15, 15, 15,
       8, 9, 10, 11, 12, 13, 14, 15, 8, 9, 10, 11, 12, 13, 14, 15,
       9, 9, 11, 11, 13, 13, 15, 15, 9, 9, 11, 11, 13, 13, 15, 15,
       10, 11, 10, 11, 14, 15, 14, 15, 10, 11, 10, 11, 14, 15, 14, 15,
       11, 11, 11, 11, 15, 15, 15, 15, 11, 11, 11, 11, 15, 15, 15, 15,
       12, 13, 14, 15, 12, 13, 14, 15, 12, 13, 14, 15, 12, 13, 14, 15,
       13, 13, 15, 15, 13, 13, 15, 15, 13, 13, 15, 15, 13, 13, 15, 15,
       14, 15, 14, 15, 14, 15, 14, 15, 14, 15, 14, 15, 14, 15, 14, 15,
       15, 15, 15, 15, 15, 15, 15, 15, 15, 15, 15, 15, 15, 15, 15, 15 >>

\* crypto/aes: the S-box and its inverse (FIPS 197).
sbox0 ==
    << 99, 124, 119, 123, 242, 107, 111, 197, 48, 1, 103, 43, 254, 215, 171, 118,
       202, 130, 201, 125, 250, 89, 71, 240, 173, 212, 162, 175, 156, 164, 114, 192,
       183, 253, 147, 38, 54, 63, 247, 204, 52, 165, 229, 241, 113, 216, 49, 21,
       4, 199, 35, 195, 24, 150, 5, 154, 7, 18, 128, 226, 235, 39, 178, 117,
       9, 131, 44, 26, 27, 110, 90, 160, 82, 59, 214, 179, 41, 227, 47, 132,
       83, 209, 0, 237, 32, 252, 177, 91, 106, 203, 190, 57, 74, 76, 88, 207,
       208, 239, 170, 251, 67, 77, 51, 133, 69, 249, 2, 127, 80, 60, 159, 168,
       81, 163, 64, 143, 146, 157, 56, 245, 188, 182, 218, 33, 16, 255, 243, 210,
       205, 12, 19, 236, 95, 151, 68, 23, 196, 167, 126, 61, 100, 93, 25, 115,
       96, 129, 79, 220, 34, 42, 144, 136, 70, 238, 184, 20, 222, 94, 11, 219,
       224, 50, 58, 10, 73, 6, 36, 92, 194, 211, 172, 98, 145, 149, 228, 121,
       231, 200, 55, 109, 141, 213, 78, 169, 108, 86, 244, 234, 101, 122, 174, 8,
       186, 120, 37, 46, 28, 166, 180, 198, 232, 221, 116, 31, 75, 189, 139, 138,
       112, 62, 181, 102, 72, 3, 246, 14, 97, 53, 87, 185, 134, 193, 29, 158,
       225, 248, 152, 17, 105, 217, 142, 148, 155, 30, 135, 233, 206, 85, 40, 223,
       140, 161, 137, 13, 191, 230, 66, 104, 65, 153, 45, 15, 176, 84, 187, 22 >>

sbox1 ==
    << 82, 9, 106, 213, 48, 54, 165, 56, 191, 64, 163, 158, 129, 243, 215, 251,
       124, 227, 57, 130, 155, 47, 255, 135, 52, 142, 67, 68, 196, 222, 233, 203,
       84, 123, 148, 50, 166, 194, 35, 61, 238, 76, 149, 11, 66, 250, 195, 78,
       8, 46, 161, 102, 40, 217, 36, 178, 118, 91, 162, 73, 109, 139, 209, 37,
       114, 248, 246, 100, 134, 104, 152, 22, 212, 164, 92, 204, 93, 101, 182, 146,
       108, 112, 72, 80, 253, 237, 185, 218, 94, 21, 70, 87, 167, 141, 157, 132,
       144, 216, 171, 0, 140, 188, 211, 10, 247, 228, 88, 5, 184, 179, 69, 6,
       208, 44, 30, 143, 202, 63, 15, 2, 193, 175, 189, 3, 1, 19, 138, 107,
       58, 145, 17, 65, 79, 103, 220, 234, 151, 242, 207, 206, 240, 180, 230, 115,
       150, 172, 116, 34, 231, 173, 53, 133, 226, 249, 55, 232, 28, 117, 223, 110,
       71, 241, 26, 113, 29, 41, 197, 137, 111, 183, 98, 14, 170, 24, 190, 27,
       252, 86, 62, 75, 198, 210, 121, 32, 154, 219, 192, 254, 120, 205, 90, 244,
       31, 221, 168, 51, 136, 7, 199, 49, 177, 18, 16, 89, 39, 128, 236, 95,
       96, 81, 127, 169, 25, 181, 74, 13, 45, 229, 122, 159, 147, 201, 156, 239,
       160, 224, 59, 77, 174, 42, 245, 176, 200, 235, 187, 60, 131, 83, 153, 97,
       23, 43, 4, 126, 186, 119, 214, 38, 225, 105, 20, 99, 85, 33, 12, 125 >>

\* crypto/md5: the sine table, each constant as its high and low 16 bits, and the
\* shift of each round (RFC 1321).
md5K ==
    << 55146, 42104, 59591, 46934, 9248, 28891, 49597, 52974,
       62844, 4015, 18311, 50730, 43056, 17939, 64838, 38145,
       27008, 39128, 35652, 63407, 65535, 23473, 35164, 55230,
       27536, 4386, 64920, 29075, 42617, 17294, 18868, 2081,
       63006, 9570, 49216, 45888, 9822, 23121, 59830, 51114,
       54831, 4189, 580, 5203, 55457, 59009, 59347, 64456,
       8673, 52710, 49975, 2006, 62677, 3463, 17754, 5357,
       43491, 59653, 64751, 41976, 26479, 729, 36138, 19594,
       65530, 14658, 34673, 63105, 28061, 24866, 64997, 14348,
       42174, 59972, 19422, 53161, 63163, 19296, 48831, 48240,
       10395, 32454, 60065, 10234, 54511, 12421, 1160, 7429,
       55764, 53305, 59099, 39397, 8098, 31992, 50348, 22117,
       62505, 8772, 17194, 65431, 43924, 9127, 64659, 41017,
       25947, 22979, 36620, 52370, 65519, 62589, 34180, 24017,
       28584, 32335, 65068, 59104, 41729, 17172, 19976, 4513,
       63315, 32386, 48442, 62005, 10967, 53947, 60294, 54161 >>

md5S ==
    << 7, 12, 17, 22, 7, 12, 17, 22, 7, 12, 17, 22, 7, 12, 17, 22,
       5, 9, 14, 20, 5, 9, 14, 20, 5, 9, 14, 20, 5, 9, 14, 20,
       4, 11, 16, 23, 4, 11, 16, 23, 4, 11, 16, 23, 4, 11, 16, 23,
       6, 10, 15, 21, 6, 10, 15, 21, 6, 10, 15, 21, 6, 10, 15, 21 >>

\* Bitwise operations on bytes and on 16-bit numbers, by 4-bit digits.
Xor8(a, b) ==
    Xor4[(a \div 16) * 16 + (b \div 16) + 1] * 16 + Xor4[(a % 16) * 16 + (b % 16) + 1]
Op16(T, a, b) ==
    T[((a \div 4096) % 16) * 16 + ((b \div 4096) % 16) + 1] * 4096
    + T[((a \div 256) % 16) * 16 + ((b \div 256) % 16) + 1] * 256
    + T[((a \div 16) % 16) * 16 + ((b \div 16) % 16) + 1] * 16
    + T[(a % 16) * 16 + (b % 16) + 1]
AndU32(u, v) == U32(Op16(And4, u.hi, v.hi), Op16(And4, u.lo, v.lo))
OrU32(u, v) == U32(Op16(Or4, u.hi, v.hi), Op16(Or4, u.lo, v.lo))
EorU32(u, v) == U32(Op16(Xor4, u.hi, v.hi), Op16(Xor4, u.lo, v.lo))
NotU32(u) == U32(Half - 1 - u.hi, Half - 1 - u.lo)
AddU32(u, v) == U32((u.hi + v.hi + (u.lo + v.lo) \div Half) % Half, (u.lo + v.lo) % Half)
\* u rotated left by s bits, 0 < s < 32.
Rotl(u, s) ==
    LET w == IF s >= 16 THEN U32(u.lo, u.hi) ELSE u
        t == s % 16
    IN  IF t = 0
          THEN w
          ELSE U32(((w.hi * (2 ^ t)) % Half) + (w.lo \div (2 ^ (16 - t))),
                   ((w.lo * (2 ^ t)) % Half) + (w.hi \div (2 ^ (16 - t))))

\* ---- crypto/aes (FIPS 197): the state is 16 bytes, column by column.
xtime(b) == IF b >= 128 THEN Xor8((b * 2) % 256, 27) ELSE b * 2
\* k times b in GF(2^8).
RECURSIVE GMul(_, _)
GMul(k, b) ==
    IF k = 1 THEN b
    ELSE IF k % 2 = 1 THEN Xor8(b, GMul(k - 1, b))
    ELSE xtime(GMul(k \div 2, b))
MixCol(m1, a1, m2, a2, m3, a3, m4, a4) ==
    Xor8(Xor8(GMul(m1, a1), GMul(m2, a2)), Xor8(GMul(m3, a3), GMul(m4, a4)))
AddRoundKey(s, k) == 
    << Xor8(s[1], k[1]), Xor8(s[2], k[2]), Xor8(s[3], k[3]), Xor8(s[4], k[4]),
       Xor8(s[5], k[5]), Xor8(s[6], k[6]), Xor8(s[7], k[7]), Xor8(s[8], k[8]),
       Xor8(s[9], k[9]), Xor8(s[10], k[10]), Xor8(s[11], k[11]), Xor8(s[12], k[12]),
       Xor8(s[13], k[13]), Xor8(s[14], k[14]), Xor8(s[15], k[15]), Xor8(s[16], k[16]) >>
SubBytes(s) == 
    << sbox0[s[1] + 1], sbox0[s[2] + 1], sbox0[s[3] + 1], sbox0[s[4] + 1],
       sbox0[s[5] + 1], sbox0[s[6] + 1], sbox0[s[7] + 1], sbox0[s[8] + 1],
       sbox0[s[9] + 1], sbox0[s[10] + 1], sbox0[s[11] + 1], sbox0[s[12] + 1],
       sbox0[s[13] + 1], sbox0[s[14] + 1], sbox0[s[15] + 1], sbox0[s[16] + 1] >>
InvSubBytes(s) == 
    << sbox1[s[1] + 1], sbox1[s[2] + 1], sbox1[s[3] + 1], sbox1[s[4] + 1],
       sbox1[s[5] + 1], sbox1[s[6] + 1], sbox1[s[7] + 1], sbox1[s[8] + 1],
       sbox1[s[9] + 1], sbox1[s[10] + 1], sbox1[s[11] + 1], sbox1[s[12] + 1],
       sbox1[s[13] + 1], sbox1[s[14] + 1], sbox1[s[15] + 1], sbox1[s[16] + 1] >>
ShiftRows(s) == 
    << s[1], s[6], s[11], s[16],
       s[5], s[10], s[15], s[4],
       s[9], s[14], s[3], s[8],
       s[13], s[2], s[7], s[12] >>
InvShiftRows(s) == 
    << s[1], s[14], s[11], s[8],
       s[5], s[2], s[15], s[12],
       s[9], s[6], s[3], s[16],
       s[13], s[10], s[7], s[4] >>
MixColumns(s) ==
    << MixCol(2, s[1], 3, s[2], 1, s[3], 1, s[4]),
       MixCol(1, s[1], 2, s[2], 3, s[3], 1, s[4]),
       MixCol(1, s[1], 1, s[2], 2, s[3], 3, s[4]),
       MixCol(3, s[1], 1, s[2], 1, s[3], 2, s[4]),
       MixCol(2, s[5], 3, s[6], 1, s[7], 1, s[8]),
       MixCol(1, s[5], 2, s[6], 3, s[7], 1, s[8]),
       MixCol(1, s[5], 1, s[6], 2, s[7], 3, s[8]),
       MixCol(3, s[5], 1, s[6], 1, s[7], 2, s[8]),
       MixCol(2, s[9], 3, s[10], 1, s[11], 1, s[12]),
       MixCol(1, s[9], 2, s[10], 3, s[11], 1, s[12]),
       MixCol(1, s[9], 1, s[10], 2, s[11], 3, s[12]),
       MixCol(3, s[9], 1, s[10], 1, s[11], 2, s[12]),
       MixCol(2, s[13], 3, s[14], 1, s[15], 1, s[16]),
       MixCol(1, s[13], 2, s[14], 3, s[15], 1, s[16]),
       MixCol(1, s[13], 1, s[14], 2, s[15], 3, s[16]),
       MixCol(3, s[13], 1, s[14], 1, s[15], 2, s[16]) >>
InvMixColumns(s) ==
    << MixCol(14, s[1], 11, s[2], 13, s[3], 9, s[4]),
       MixCol(9, s[1], 14, s[2], 11, s[3], 13, s[4]),
       MixCol(13, s[1], 9, s[2], 14, s[3], 11, s[4]),
       MixCol(11, s[1], 13, s[2], 9, s[3], 14, s[4]),
       MixCol(14, s[5], 11, s[6], 13, s[7], 9, s[8]),
       MixCol(9, s[5], 14, s[6], 11, s[7], 13, s[8]),
       MixCol(13, s[5], 9, s[6], 14, s[7], 11, s[8]),
       MixCol(11, s[5], 13, s[6], 9, s[7], 14, s[8]),
       MixCol(14, s[9], 11, s[10], 13, s[11], 9, s[12]),
       MixCol(9, s[9], 14, s[10], 11, s[11], 13, s[12]),
       MixCol(13, s[9], 9, s[10], 14, s[11], 11, s[12]),
       MixCol(11, s[9], 13, s[10], 9, s[11], 14, s[12]),
       MixCol(14, s[13], 11, s[14], 13, s[15], 9, s[16]),
       MixCol(9, s[13], 14, s[14], 11, s[15], 13, s[16]),
       MixCol(13, s[13], 9, s[14], 14, s[15], 11, s[16]),
       MixCol(11, s[13], 13, s[14], 9, s[15], 14, s[16]) >>
rcon == <<1, 2, 4, 8, 16, 32, 64, 128, 27, 54>>
\* The key schedule.  expandWord adds the next word to the words w made so
\* far from a key of nk words.
expandWord(w, nk) ==
    LET i == Len(w) \div 4
        t == SubSeq(w, Len(w) - 3, Len(w))
        p == SubSeq(w, Len(w) - 4 * nk + 1, Len(w) - 4 * nk + 4)
        g == IF i % nk = 0
               THEN <<Xor8(sbox0[t[2] + 1], rcon[i \div nk]), sbox0[t[3] + 1],
                      sbox0[t[4] + 1], sbox0[t[1] + 1]>>
               ELSE IF nk > 6 /\ i % nk = 4
                 THEN <<sbox0[t[1] + 1], sbox0[t[2] + 1], sbox0[t[3] + 1], sbox0[t[4] + 1]>>
                 ELSE t
    IN  w \o <<Xor8(p[1], g[1]), Xor8(p[2], g[2]), Xor8(p[3], g[3]), Xor8(p[4], g[4])>>
\* The next n words, made half by half.
RECURSIVE expandWords(_, _, _)
expandWords(w, nk, n) ==
    IF n = 1
      THEN expandWord(w, nk)
      ELSE LET h == expandWords(w, nk, n \div 2)
           IN  <<h, expandWords(h, nk, n - n \div 2)>>[2]
\* The round keys of a key of nk words, as one byte string of 4 * (nk + 7)
\* words.
expandKey(key, nk) == expandWords(key, nk, 4 * (nk + 7) - nk)
RoundKey(rk, r) == SubSeq(rk, 16 * r + 1, 16 * r + 16)
\* Round r of Encrypt and of Decrypt on the state s, one step after the other.
encryptRound(s, rk, r) ==
    LET a == SubBytes(s)
        b == ShiftRows(a)
        c == MixColumns(b)
    IN  <<a, b, c, AddRoundKey(c, RoundKey(rk, r))>>[4]
decryptRound(s, rk, r) ==
    LET a == InvShiftRows(s)
        b == InvSubBytes(a)
        c == AddRoundKey(b, RoundKey(rk, r))
    IN  <<a, b, c, InvMixColumns(c)>>[4]
\* Rounds r..r+n-1 of Encrypt, and rounds r..r-n+1 of Decrypt, made half by
\* half.
RECURSIVE encryptRounds(_, _, _, _)
encryptRounds(s, rk, r, n) ==
    IF n = 1
      THEN encryptRound(s, rk, r)
      ELSE LET v == encryptRounds(s, rk, r, n \div 2)
           IN  <<v, encryptRounds(v, rk, r + n \div 2, n - n \div 2)>>[2]
RECURSIVE decryptRounds(_, _, _, _)
decryptRounds(s, rk, r, n) ==
    IF n = 1
      THEN decryptRound(s, rk, r)
      ELSE LET v == decryptRounds(s, rk, r, n \div 2)
           IN  <<v, decryptRounds(v, rk, r - n \div 2, n - n \div 2)>>[2]
\* cipher.Block Encrypt and Decrypt of one block: the first round key, the
\* full rounds, and the last round without MixColumns.
aesEncrypt(rk, b) ==
    LET nr == Len(rk) \div 16 - 1
        s0 == AddRoundKey(b, RoundKey(rk, 0))
        s1 == encryptRounds(s0, rk, 1, nr - 1)
        s2 == ShiftRows(SubBytes(s1))
    IN  <<s0, s1, s2, AddRoundKey(s2, RoundKey(rk, nr))>>[4]
aesDecrypt(rk, b) ==
    LET nr == Len(rk) \div 16 - 1
        s0 == AddRoundKey(b, RoundKey(rk, nr))
        s1 == decryptRounds(s0, rk, nr - 1, nr - 1)
        s2 == InvSubBytes(InvShiftRows(s1))
    IN  <<s0, s1, s2, AddRoundKey(s2, RoundKey(rk, 0))>>[4]

\* A Cipher: the key and the AES round keys made from it.  aes.NewCipher
\* takes keys of 16, 24 or 32 bytes.
KeySizes == {16, 24, 32}
NewCipher(key) ==
    IF Len(key) \in KeySizes
      THEN [err |-> NilErr, key |-> key, aes |-> expandKey(key, Len(key) \div 4)]
      ELSE [err |-> Error("KeySizeError", "invalid key size"), key |-> << >>, aes |-> << >>]

\* ---- encoding/base64, StdEncoding
b64Char(i) ==
    IF i < 26 THEN 65 + i
    ELSE IF i < 52 THEN 97 + (i - 26)
    ELSE IF i < 62 THEN 48 + (i - 52)
    ELSE IF i = 62 THEN 43 ELSE 47
b64Index(ch) ==
    IF ch \in 65..90 THEN ch - 65
    ELSE IF ch \in 97..122 THEN ch - 97 + 26
    ELSE IF ch \in 48..57 THEN ch - 48 + 52
    ELSE IF ch = 43 THEN 62
    ELSE IF ch = 47 THEN 63
    ELSE -1
b64Pad == 61
b64EncodedLen(n) == ((n + 2) \div 3) * 4
\* Encode: three bytes make four characters; the last one or two bytes are
\* padded.  A longer input is encoded in two parts of whole quanta.
RECURSIVE b64Encode(_)
b64Encode(src) ==
    IF Len(src) = 0 THEN << >>
    ELSE IF Len(src) = 1
      THEN <<b64Char(src[1] \div 4), b64Char((src[1] % 4) * 16), b64Pad, b64Pad>>
    ELSE IF Len(src) = 2
      THEN <<b64Char(src[1] \div 4), b64Char((src[1] % 4) * 16 + src[2] \div 16),
             b64Char((src[2] % 16) * 4), b64Pad>>
    ELSE IF Len(src) = 3
      THEN <<b64Char(src[1] \div 4), b64Char((src[1] % 4) * 16 + src[2] \div 16),
             b64Char((src[2] % 16) * 4 + src[3] \div 64), b64Char(src[3] % 64)>>
    ELSE LET h == 3 * ((Len(src) \div 3 + 1) \div 2)
         IN  b64Encode(SubSeq(src, 1, h)) \o b64Encode(SubSeq(src, h + 1, Len(src)))
\* Decode: line breaks are skipped; the rest is read four characters at a
\* time, the last four may end in padding; anything else is corrupt input.
b64Corrupt == [err |-> Error("CorruptInputError", "illegal base64 data"), data |-> << >>]
\* One quantum of four characters; padding is allowed in the last one only.
b64Quantum(s, last) ==
    LET a == b64Index(s[1])
        b == b64Index(s[2])
        c == b64Index(s[3])
        d == b64Index(s[4])
    IN  IF a < 0 \/ b < 0 THEN b64Corrupt
        ELSE IF s[3] = b64Pad
          THEN IF s[4] = b64Pad /\ last
                 THEN [err |-> NilErr, data |-> <<a * 4 + b \div 16>>]
                 ELSE b64Corrupt
        ELSE IF c < 0 THEN b64Corrupt
        ELSE IF s[4] = b64Pad
          THEN IF last
                 THEN [err |-> NilErr,
                       data |-> <<a * 4 + b \div 16, (b % 16) * 16 + c \div 4>>]
                 ELSE b64Corrupt
        ELSE IF d < 0 THEN b64Corrupt
        ELSE [err |-> NilErr,
              data |-> <<a * 4 + b \div 16, (b % 16) * 16 + c \div 4, (c % 4) * 64 + d>>]
\* The quanta of s, which ends the input when last; a longer input is
\* decoded in two parts of whole quanta.
RECURSIVE b64Quanta(_, _)
b64Quanta(s, last) ==
    IF Len(s) = 0 THEN [err |-> NilErr, data |-> << >>]
    ELSE IF Len(s) < 4 THEN b64Corrupt
    ELSE IF Len(s) = 4 THEN b64Quantum(s, last)
    ELSE LET h == 4 * ((Len(s) \div 4 + 1) \div 2)
             l == b64Quanta(SubSeq(s, 1, h), FALSE)
             r == b64Quanta(SubSeq(s, h + 1, Len(s)), last)
         IN  IF l.err # NilErr \/ r.err # NilErr
               THEN b64Corrupt
               ELSE [err |-> NilErr, data |-> l.data \o r.data]
IsLineBreak(ch) == ch \in {10, 13}
b64Decode(s) == b64Quanta(SelectSeq(s, LAMBDA ch : ~IsLineBreak(ch)), TRUE)

\* ---- crypto/md5 (RFC 1321)
\* The message padded to whole 64-byte blocks: 0x80, zeros, and the length
\* in bits as 8 little-endian bytes (the messages here are below 8 KiB).
md5Pad(m) ==
    LET n == Len(m)
        z == (119 - (n % 64)) % 64
        bits == n * 8
    IN  m \o <<128>> \o Zeros(z) \o <<bits % 256, (bits \div 256) % 256, 0, 0, 0, 0, 0, 0>>
\* Word j (from 0) of the block starting at byte k: little-endian.
md5Word(m, k, j) == U32(m[k + 4 * j + 3] * 256 + m[k + 4 * j + 2], m[k + 4 * j + 1] * 256 + m[k + 4 * j])
md5F(i, b, c, d) ==
    IF i < 16 THEN OrU32(AndU32(b, c), AndU32(NotU32(b), d))
    ELSE IF i < 32 THEN OrU32(AndU32(d, b), AndU32(NotU32(d), c))
    ELSE IF i < 48 THEN EorU32(EorU32(b, c), d)
    ELSE EorU32(c, OrU32(b, NotU32(d)))
md5G(i) ==
    IF i < 16 THEN i
    ELSE IF i < 32 THEN (5 * i + 1) % 16
    ELSE IF i < 48 THEN (3 * i + 5) % 16
    ELSE (7 * i) % 16
\* Round i on the state st = <<a, b, c, d>> for the block at byte k, one
\* step after the other.
md5Round(st, m, k, i) ==
    LET fv == md5F(i, st[2], st[3], st[4])
        s1 == AddU32(fv, st[1])
        s2 == AddU32(U32(md5K[2 * i + 1], md5K[2 * i + 2]), md5Word(m, k, md5G(i)))
        f == AddU32(s1, s2)
        r == Rotl(f, md5S[i + 1])
    IN  <<fv, s1, s2, f, r, <<st[4], AddU32(st[2], r), st[2], st[3]>> >>[6]
\* Rounds i..i+n-1, n a power of 4, made quarter by quarter.
RECURSIVE md5Rounds(_, _, _, _, _)
md5Rounds(st, m, k, i, n) ==
    IF n = 1
      THEN md5Round(st, m, k, i)
      ELSE LET q == n \div 4
               a == md5Rounds(st, m, k, i, q)
               b == md5Rounds(a, m, k, i + q, q)
               c == md5Rounds(b, m, k, i + 2 * q, q)
           IN  <<a, b, c, md5Rounds(c, m, k, i + 3 * q, q)>>[4]
RECURSIVE md5Blocks(_, _, _)
md5Blocks(st, m, k) ==
    IF k > Len(m)
      THEN st
      ELSE LET r == md5Rounds(st, m, k, 0, 64)
               n == <<AddU32(st[1], r[1]), AddU32(st[2], r[2]), AddU32(st[3], r[3]), AddU32(st[4], r[4])>>
           IN  <<r, n, md5Blocks(n, m, k + 64)>>[3]
md5Init == <<U32(26437, 8961), U32(61389, 43913), U32(39098, 56574), U32(4146, 21622)>>
LittleEndian(u) == <<u.lo % 256, u.lo \div 256, u.hi % 256, u.hi \div 256>>
md5Sum(m) ==
    LET st == md5Blocks(md5Init, md5Pad(m), 1)
    IN  LittleEndian(st[1]) \o LittleEndian(st[2]) \o LittleEndian(st[3]) \o LittleEndian(st[4])

\* ---- encoding/hex
hexDigit(n) == IF n < 10 THEN 48 + n ELSE 97 + (n - 10)
RECURSIVE hexEncode(_)
hexEncode(b) ==
    IF Len(b) = 0 THEN << >>
    ELSE IF Len(b) = 1 THEN <<hexDigit(b[1] \div 16), hexDigit(b[1] % 16)>>
    ELSE hexEncode(SubSeq(b, 1, Len(b) \div 2)) \o hexEncode(SubSeq(b, Len(b) \div 2 + 1, Len(b)))

\* (mutation of macTag: the tag made from the key alone)
macTagKeyOnly(key, data) ==
    hexEncode(SubSeq(md5Sum(<<100, 97, 116, 97, 61>> \o <<124, 124, 108, 112, 118, 61>>
                            \o version \o <<124, 124>> \o key), 5, 12))

\* macTag: hex(md5("data=" <data> "||lpv=" <version> "||" <key>)[4:12])
macTag(key, data) ==
    hexEncode(SubSeq(md5Sum(<<100, 97, 116, 97, 61>> \o data \o <<124, 124, 108, 112, 118, 61>>
                            \o version \o <<124, 124>> \o key), 5, 12))

\* AES in ECB mode over the whole blocks of b.
RECURSIVE ecbEncrypt(_, _)
ecbEncrypt(rk, b) ==
    IF Len(b) = 0 THEN << >>
    ELSE aesEncrypt(rk, SubSeq(b, 1, blockSize)) \o ecbEncrypt(rk, SubSeq(b, blockSize + 1, Len(b)))
RECURSIVE ecbDecrypt(_, _)
ecbDecrypt(rk, b) ==
    IF Len(b) = 0 THEN << >>
    ELSE aesDecrypt(rk, SubSeq(b, 1, blockSize)) \o ecbDecrypt(rk, SubSeq(b, blockSize + 1, Len(b)))

\* (mutation of padSize: no padding added to a plaintext of whole blocks)
padSizeNoFullBlock(n) == (blockSize - (n % blockSize)) % blockSize

\* Cipher.Encrypt line 52: the number of padding bytes for n plaintext bytes.
padSize(n) == blockSize - (n % blockSize)

\* Cipher.Encrypt: <version><hex(tag)><base64(ciphertext)>, the blocks, their
\* encoding and the tag made in that order.
CipherEncrypt(c, plaintext) ==
    LET padded == plaintext \o [i \in 1..padSize(Len(plaintext)) |-> padSize(Len(plaintext))]
        blocks == ecbEncrypt(c.aes, padded)
        encoded == b64Encode(blocks)
    IN  <<blocks, encoded, version \o macTag(c.key, encoded) \o encoded>>[3]

\* What Decrypt returns: the plaintext and an error, or a run-time panic.
Decrypted(e, d) == [state |-> "returned", err |-> e, data |-> d]
DecryptPanic == [state |-> "panic", err |-> NilErr, data |-> << >>]

\* The PKCS#7 check of lines 116-125 on the decrypted blocks.
Unpad(pt) ==
    LET n == pt[Len(pt)]
    IN  IF n < 1 \/ n > blockSize
          THEN Decrypted(ErrPadding, << >>)
          ELSE IF \E i \in (Len(pt) - n + 1)..(Len(pt) - 1) : pt[i] # n
            THEN Decrypted(ErrPadding, << >>)
            ELSE Decrypted(NilErr, SubSeq(pt, 1, Len(pt) - n))

\* Cipher.Decrypt
CipherDecrypt(c, ciphertext) ==
    IF Len(ciphertext) < Len(version) + tagSize + b64EncodedLen(blockSize)
      THEN Decrypted(ErrTooSmall, << >>)
    ELSE IF SubSeq(ciphertext, 1, Len(version)) # version
      THEN Decrypted(Error("fmt", "ciphertext doesn't start with 3.1"), << >>)
    ELSE
      LET rest == SubSeq(ciphertext, Len(version) + 1, Len(ciphertext))
          tag == SubSeq(rest, 1, tagSize)
          b64data == SubSeq(rest, tagSize + 1, Len(rest))
      IN  IF tag # macTag(c.key, b64data)
            THEN Decrypted(ErrTagVerification, << >>)
          ELSE IF b64Decode(b64data).err # NilErr
            THEN Decrypted(Error("fmt", "base64 Decode"), << >>)
          ELSE IF Len(b64Decode(b64data).data) % blockSize # 0 \/ Len(b64Decode(b64data).data) = 0
            THEN DecryptPanic
          ELSE Unpad(ecbDecrypt(c.aes, b64Decode(b64data).data))

\* ------------------------------------------------------------- the cipher on its own
\* Longest plaintext tried.
MaxPlainLen == 17
\* testKey and testPlaintext of the package's tests.
testKey == <<98, 98, 101, 56, 56, 98, 51, 102, 52, 49, 48, 54, 100, 51, 53, 52>>
testPlaintext ==
    << 123, 34, 100, 101, 118, 73, 100, 34, 58, 34, 48, 48, 50, 48, 48, 52,
       50, 54, 53, 99, 99, 102, 55, 102, 98, 49, 98, 54, 53, 57, 34, 44 >>
\* Keys of the three sizes NewCipher accepts.
Keys == {testKey, testKey \o SubSeq(testKey, 1, 8), testKey \o testKey}
\* Plaintexts of every length up to MaxPlainLen: the beginning of
\* testPlaintext, and bytes that look like padding (1 and 16).
PlainTexts ==
    UNION {{SubSeq(testPlaintext, 1, n), [i \in 1..n |-> 1], [i \in 1..n |-> blockSize]} :
             n \in 0..MaxPlainLen}

InitCipher ==
    /\ seq = Zero
    /\ InitSession
    /\ hasCipher
    /\ arg \in {[fn |-> "Cipher", c |-> NewCipher(k), p |-> p] : k \in Keys, p \in PlainTexts}
    /\ ret = NoCall

\* c.Encrypt(plaintext)
CallEncrypt ==
    /\ ret = NoCall
    /\ ret' = [fn |-> "Encrypt", out |-> CipherEncrypt(arg.c, arg.p), pos |-> 0]
    /\ UNCHANGED <<mgrVars, cliVars, rdVars, reqVars, cpc, crashed, arg>>

\* Characters an envelope's character is changed to: 'f' (a hex digit and a
\* base64 character, as in TestDecryptBadMAC), or 'A' where it is 'f'
\* already, and '!' (neither).
TamperChars(ch) == {IF ch = 102 THEN 65 ELSE 102, 33}

\* One character of the tag or of the base64 segment is changed.
Tamper ==
    /\ ret.fn = "Encrypt"
    /\ \E i \in (Len(version) + 1)..Len(ret.out) :
         \E ch \in TamperChars(ret.out[i]) :
            ret' = [fn |-> "Tamper", out |-> [ret.out EXCEPT ![i] = ch], pos |-> i]
    /\ UNCHANGED <<mgrVars, cliVars, rdVars, reqVars, cpc, crashed, arg>>

\* c.Decrypt(ciphertext)
CallDecrypt ==
    /\ ret.fn \in {"Encrypt", "Tamper"}
    /\ ret' = [fn |-> "Decrypt", in |-> ret.out, pos |-> ret.pos,
               res |-> CipherDecrypt(arg.c, ret.out)]
    /\ UNCHANGED <<mgrVars, cliVars, rdVars, reqVars, cpc, crashed, arg>>

NextCipher ==
    \/ CallEncrypt
    \/ CallDecrypt

SpecCipher == InitCipher /\ [][NextCipher]_vars

\* Longest plaintext whose envelope is tampered with.
MaxTamperLen == 2
\* The plaintexts whose envelopes are tampered with: short ones, and one of
\* a whole block, which makes an envelope of two blocks.
TamperTexts ==
    {SubSeq(testPlaintext, 1, n) : n \in 0..MaxTamperLen}
        \cup {SubSeq(testPlaintext, 1, blockSize)}

InitTamper ==
    /\ seq = Zero
    /\ InitSession
    /\ hasCipher
    /\ arg \in {[fn |-> "Cipher", c |-> NewCipher(testKey), p |-> p] : p \in TamperTexts}
    /\ ret = NoCall

\* An envelope made by Encrypt reaches Decrypt as it is, or with one
\* character changed.
NextTamper ==
    \/ CallEncrypt
    \/ Tamper
    \/ CallDecrypt

SpecTamper == InitTamper /\ [][NextTamper]_vars

\* The number of ciphertext bytes inside an envelope.
CiphertextLen(env) ==
    Len(b64Decode(SubSeq(env, Len(version) + tagSize + 1, Len(env))).data)

\* C15: for every key NewCipher accepts and every plaintext, Encrypt adds
\* between 1 and 16 padding bytes, so that the encrypted length is a positive
\* multiple of the block size, and Decrypt of what Encrypt returned gives
\* back the plaintext with no error.
C15_CipherRoundTrip ==
    /\ arg.c.err = NilErr
    /\ (ret # NoCall /\ ret.fn = "Encrypt") =>
          /\ CiphertextLen(ret.out) - Len(arg.p) \in 1..blockSize
          /\ CiphertextLen(ret.out) % blockSize = 0
          /\ CiphertextLen(ret.out) > 0
          /\ Len(ret.out) = Len(version) + tagSize + b64EncodedLen(CiphertextLen(ret.out))
    /\ (ret # NoCall /\ ret.fn = "Decrypt" /\ ret.pos = 0) =>
          ret.res = Decrypted(NilErr, arg.p)

\* C15 witness: a plaintext of exactly one block has been encrypted into two
\* blocks and decrypted back.
C15_WholeBlockDecrypted ==
    /\ ret # NoCall
    /\ ret.fn = "Decrypt"
    /\ ret.pos = 0
    /\ Len(arg.p) = blockSize
    /\ CiphertextLen(ret.in) = 2 * blockSize
    /\ ret.res.data = arg.p

\* C16: Decrypt of a valid envelope with one character of its tag or of its
\* base64 segment changed fails with ErrTagVerification, whether or not the
\* new character is valid base64.
C16_TamperDetected ==
    (ret # NoCall /\ ret.fn = "Decrypt" /\ ret.pos > 0) =>
        ret.res = Decrypted(ErrTagVerification, << >>)

\* C16 witness: Decrypt has refused an envelope whose base64 segment had a
\* character changed to one that is not base64.
C16_BadBase64Refused ==
    /\ ret # NoCall
    /\ ret.fn = "Decrypt"
    /\ ret.pos > Len(version) + tagSize
    /\ ret.in[ret.pos] = 33
    /\ ret.res.err = ErrTagVerification

\* ------------------------------------------------------------- C17 - C19
\* The channel of c has been signalled: a response was sent on it, or it
\* was closed.
Delivered(c) == pc[c] = "done" /\ chan[c] = "open" /\ result[c] # NoResult
ClosedChan(c) == chan[c] = "closed"

\* C17: a registered channel gets at most one signal, a response or a
\* closure.  Every channel in the pending table is unsignalled, with its
\* request waiting on it; a channel that got a response or was closed has
\* left the table; the channel the read loop is about to send on is in the
\* table, so it is neither closed nor served before; and no channel has got
\* both a response and a closure.
C17_AtMostOnce ==
    /\ \A s \in DOMAIN responseChans :
          LET c == responseChans[s]
          IN  /\ chan[c] = "open"
              /\ pc[c] = "wait"
              /\ result[c] = NoResult
    /\ \A c \in Callers :
          /\ (Delivered(c) \/ ClosedChan(c)) => c \notin Range(responseChans)
          /\ ClosedChan(c) => (result[c] = NoResult \/ result[c].frame.isNil)
          /\ GotFrame(c) => chan[c] = "open"
    /\ rpc = "send" =>
          /\ LookupChan(res.Seq) # NoChan
          /\ chan[LookupChan(res.Seq)] = "open"
          /\ pc[LookupChan(res.Seq)] = "wait"

\* C17 witness: a request has been served, and the read loop holds a second
\* frame with the same sequence number, which matches no entry any more.
C17_DuplicateAfterDelivery ==
    \E c \in Callers :
        /\ GotFrame(c)
        /\ rpc = "lock"
        /\ ~res.isNil
        /\ res.Seq = mySeq[c]
        /\ res.Seq \notin DOMAIN responseChans

\* C18: closed never goes back to false, and readErr, once non-nil, is never
\* changed: neither by a later Close nor by the read loop.
C18_Monotone ==
    [][/\ closed => closed'
       /\ readErr # NilErr => readErr' = readErr]_vars

\* C18 witness: after a Close the read loop's Read failed on the closed
\* connection, the loop took the lock and stopped, and the recorded error
\* is still ErrClosed.
C18_ReadErrorAfterClose ==
    /\ closed
    /\ rpc = "defer"
    /\ Reader \in mu
    /\ rerr # NilErr
    /\ readErr = ErrClosed

\* A session that has been in use for long: the request of caller 1, written
\* with sequence number 1, is still pending (nothing bounds how long a
\* request waits), and the 2^32 - 1 requests made since, all of them
\* answered, have brought the counter round to 0.  Of the stream only the
\* pending request's frame is kept.
InitWrap ==
    /\ closed = FALSE
    /\ readErr = NilErr
    /\ responseChans = Put(EmptyMap, One, 1)
    /\ mu = {}
    /\ seq = Zero
    /\ wmu = {}
    /\ hasCipher \in BOOLEAN
    /\ connOpen = TRUE
    /\ closeCalls = 0
    /\ stream = <<Piece(One, "get", "head"), Piece(One, "get", "tail")>>
    /\ rpc = "read"
    /\ res = NilResponse
    /\ rerr = NilErr
    /\ panicking = FALSE
    /\ pc = [c \in Callers |-> IF c = 1 THEN "wait" ELSE "idle"]
    /\ kind = [c \in Callers |-> "get"]
    /\ wseq = [c \in Callers |-> IF c = 1 THEN One ELSE Zero]
    /\ mySeq = [c \in Callers |-> IF c = 1 THEN One ELSE Zero]
    /\ chan = [c \in Callers |-> IF c = 1 THEN "open" ELSE "none"]
    /\ result = [c \in Callers |-> NoResult]
    /\ cpc = [p \in CloseProcs |-> "idle"]
    /\ crashed = FALSE
    /\ InitNoCall

SpecWrap == InitWrap /\ [][Next]_vars

\* C19 (as claimed): no two requests are outstanding under one sequence
\* number, and every request waiting on an unsignalled channel has its
\* channel in the pending table under its own number.
C19_OnePerSeq ==
    \A c \in Callers :
        (pc[c] = "wait" /\ chan[c] = "open") =>
            /\ mySeq[c] \in DOMAIN responseChans
            /\ responseChans[mySeq[c]] = c
            /\ \A d \in Callers \ {c} :
                  (pc[d] = "wait" /\ chan[d] = "open") => mySeq[d] # mySeq[c]

\* A decode call has returned an error.
DecodeFailed == DecodeDone /\ ret.out.state = "returned" /\ ret.out.err # NilErr

\* C21 (as claimed): on a decode failure the Frame decoded into holds
\* nothing of the failed frame: its Seq, Cmd and Payload (contents and
\* length) are those it had before the call; for DecodeFrame, whose Frame is
\* new, that is the zero Frame, the least that "no frame" can mean.
C21_NoPartialFrame ==
    DecodeFailed =>
        /\ ret.out.f.Seq = ret.dst.Seq
        /\ ret.out.f.Cmd = ret.dst.Cmd
        /\ ret.out.f.Payload = ret.dst.Payload

\* What request returns when Write has failed with ErrNoKey (line 74,
\* wrapped at line 113).
NoKeyFailed(c) ==
    /\ pc[c] = "done"
    /\ result[c] = Returned(Wrap("request Write", ErrNoKey), NilResponse)

\* C22: on a Client with no cipher a request that asks for encryption
\* (SetState) ends at once, with ErrNoKey from Write unless the session's
\* fatal error stopped it before Write, and has no effect: it holds neither
\* the write lock nor a sequence number and none of its bytes is on the
\* stream.  The counter has moved once for every other Write that took the
\* lock and only for those, so those Writes have the numbers that follow
\* the counter's initial value, as if the failed calls had never been made.
C22_NoKeyNoEffect ==
    LET lockers == {c \in Callers : TookLock(c)}
        n == Cardinality(lockers)
    IN  /\ \A c \in Callers :
              (pc[c] # "idle" /\ kind[c] = "set" /\ ~hasCipher) =>
                 /\ pc[c] = "done"
                 /\ NoKeyFailed(c) \/ result[c] = Returned(ErrClosed, NilResponse)
                 /\ c \notin lockers
                 /\ c \notin wmu
                 /\ wseq[c] = Zero
                 /\ mySeq[c] = Zero
        /\ ~hasCipher =>
              /\ \A i \in DOMAIN stream : stream[i].Cmd = Cmd("get")
              /\ Len(stream) <= 2 * Cardinality({c \in lockers : kind[c] = "get"})
        /\ \E s0 \in InitSeqs :
              /\ seq = IncN(s0, n)
              /\ \A c \in lockers : \E k \in 1..n : wseq[c] = IncN(s0, k)
              /\ \A i \in DOMAIN stream : \E k \in 1..n : stream[i].Seq = IncN(s0, k)
        /\ \A c, d \in lockers : c # d => wseq[c] # wseq[d]

\* C22 witness: on a Client with no cipher the first request has failed
\* with ErrNoKey and the Write of a later request has returned the first
\* number after the counter's initial value, its frame alone on the stream.
C22_WriteAfterNoKey ==
    \E c, d \in Callers :
        /\ c < d
        /\ ~hasCipher
        /\ kind[c] = "set"
        /\ NoKeyFailed(c)
        /\ WriteReturned(d)
        /\ \E s0 \in InitSeqs : seq = Inc(s0) /\ mySeq[d] = Inc(s0)
        /\ stream = <<Piece(mySeq[d], kind[d], "head"), Piece(mySeq[d], kind[d], "tail")>>

\* C23 (as claimed): the read loop is never left waiting for the session
\* lock while it holds that lock itself.  sync.Mutex is not reentrant and
\* only the read loop could unlock, so from such a state the goroutine never
\* ends and the lock is never free again.
C23_ReaderNeverStuck == ~(rpc = "defer" /\ cpc[Reader] = "lock" /\ Reader \in mu)

====
